---- MODULE Spec2Model ----
(***************************************************************************)
(* Data Refresh & Cache Coordinator of the biotech market dashboard.       *)
(*                                                                         *)
(* The module models the client-side singleton StaticMarketDataService     *)
(* (frontend/src/lib/services/marketDataService.ts) and the part of the    *)
(* MarketDashboard component that drives it (fetchData, the passive        *)
(* refresh timer, handleRefresh, pollRefreshStatus and the on-mount        *)
(* status check).  The Remote Market API is an opaque HTTP service: each   *)
(* of its responses is a nondeterministic choice.                          *)
(*                                                                         *)
(* JavaScript is single threaded: a handler runs from one suspension       *)
(* point (await, timer) to the next without interleaving, and the          *)
(* continuations of a settled promise (microtasks) run before any other    *)
(* timer or network event.  One action of the model is therefore one such  *)
(* run.                                                                    *)
(***************************************************************************)
EXTENDS Integers, Sequences, FiniteSets, TLC

----------------------------------------------------------------------------
(* Bounds of the model *)

\* the clock makes at most MaxTime steps of TickMs
MaxTime == 1
\* number of fetchMarketData() calls that can be pending at the same time
MaxCalls == 2
\* number of refresh activities (trigger requests, status requests, poll
\* timers) that can be outstanding at the same time
MaxLoops == 1

----------------------------------------------------------------------------
(* Time.  Date.now() is in milliseconds; the model clock advances in steps *)
(* of five minutes, the length of CACHE_DURATION.  Time 0 of the model is  *)
(* 2024-01-01T00:00:00Z.                                                   *)

TickMs == 300 * 1000

\* private readonly CACHE_DURATION = 5 * 60 * 1000
CACHE_DURATION == 5 * 60 * 1000

----------------------------------------------------------------------------
(* JavaScript values of a JSON payload.  A value is [t, v]: t is the       *)
(* typeof-like tag ("absent" when the property is not in the object), v    *)
(* the text of the value.                                                  *)

V(t, v) == [t |-> t, v |-> v]
Absent == V("absent", "")
JsNull == V("null", "")
Str(s) == V("string", s)
Num(s) == V("number", s)

\* the strings Number() converts to a number (Number("") is 0)
NumericStrings == {"", "12", "10.5"}

\* isNaN(Number(v))
NumberIsNaN(v) ==
    CASE v.t = "number" -> FALSE
      [] v.t = "null"   -> FALSE
      [] v.t = "string" -> v.v \notin NumericStrings
      [] OTHER          -> TRUE

\* a Date: null, a valid date with its getTime(), or Invalid Date (NaN)
NullDate == [kind |-> "null", ms |-> 0]
InvalidDate == [kind |-> "invalid", ms |-> 0]
DateAt(ms) == [kind |-> "date", ms |-> ms]

\* new Date(s) for the timestamp strings of the payloads
NewDate(s) ==
    CASE s = "2024-01-01T00:00:00Z" -> DateAt(0)
      [] s = "2024-01-01T00:02:30Z" -> DateAt(150 * 1000)
      [] OTHER                      -> InvalidDate

\* an element of the response array: an object with (some of) the Stock
\* properties, or a non-object (null)
Obj(sym, price, ts) ==
    [kind |-> "object", symbol |-> sym, price |-> price, timestamp |-> ts]
NullItem == [kind |-> "null", symbol |-> Absent, price |-> Absent, timestamp |-> Absent]

T0 == Str("2024-01-01T00:00:00Z")
T1 == Str("2024-01-01T00:02:30Z")

RecABC == Obj(Str("ABC"), Num("10.5"), T0)
RecXYZ == Obj(Str("XYZ"), Str("12"), T1)
RecEmptySymbol == Obj(Str(""), Num("10.5"), T0)
RecNaNPrice == Obj(Str("ABC"), Str("abc"), T0)

\* a parsed JSON body: an array of items, or something that is not an array
Arr(items) == [isArray |-> TRUE, items |-> items]
NotArray == [isArray |-> FALSE, items |-> <<>>]

\* the bodies the snapshot endpoint answers with
Payloads ==
    { Arr(<<RecABC>>),
      Arr(<<RecABC, RecXYZ>>),
      Arr(<<>>),
      Arr(<<RecEmptySymbol>>),
      Arr(<<RecABC, RecNaNPrice>>),
      Arr(<<RecABC, NullItem>>) }

\* responses of GET /api/market-data: the request fails in transport, the
\* status is not ok, or the body parses to a payload
GetResponses ==
    { [kind |-> k, data |-> NotArray] : k \in {"transport", "http"} }
    \cup { [kind |-> "json", data |-> p] : p \in Payloads }

----------------------------------------------------------------------------
(* StaticMarketDataService *)

VARIABLES
    apiUrl,       \* process.env.NEXT_PUBLIC_API_URL is set
    cache,        \* private cache: Stock[]
    lastUpdated,  \* private lastUpdated: Date | null
    isFetching,   \* private isFetching: boolean
    now,          \* Date.now()
    pc,           \* per call slot: "free", "fetching" (owns the request), "waiting"
    origin,       \* per call slot: who called fetchMarketData()
    fetchedAt,    \* Date.now() when the cached snapshot was fetched, or -1
    ui,           \* state of the MarketDashboard component
    net,          \* refresh requests and poll timers outstanding
    last,         \* the handler that ran last and what it returned
    run,          \* progress of a refresh run that nothing else interleaves
    reqs,         \* the outstanding snapshot requests in the order of issue
    tk            \* the call of the ticker service in progress

\* the market data service and the dashboard
market == <<apiUrl, cache, lastUpdated, isFetching, now, pc, origin,
            fetchedAt, ui, net, last, run, reqs>>

vars == <<apiUrl, cache, lastUpdated, isFetching, now, pc, origin,
          fetchedAt, ui, net, last, run, reqs, tk>>

Calls == 1 .. MaxCalls
Origins == {"consumer", "fetchData", "poll"}

\* what a fetchMarketData() promise settles with
NoOutcome == [kind |-> "none", data |-> <<>>, msg |-> ""]
Pending == [kind |-> "pending", data |-> <<>>, msg |-> ""]
Resolved(data) == [kind |-> "resolved", data |-> data, msg |-> ""]
Rejected(msg) == [kind |-> "rejected", data |-> <<>>, msg |-> msg]

\* a handler run: its name, the snapshot response or the refresh status it
\* handled, and what its fetchMarketData() call returned
Event(op, resp, out) ==
    [op |-> op, resp |-> resp, out |-> out, status |-> "", late |-> FALSE]

\* validateStockData(data)
ItemOk(item) ==
    /\ item.kind = "object"
    /\ item.symbol.t # "absent"
    /\ item.symbol.t = "string"
    /\ item.price.t # "absent"
    /\ ~NumberIsNaN(item.price)
    /\ item.timestamp.t # "absent"
    /\ item.timestamp.t = "string"

validateStockData(data) ==
    /\ data.isArray
    /\ \A i \in 1 .. Len(data.items) : ItemOk(data.items[i])

\* isDataValid() with the age comparison inverted
isDataValid_Inverted ==
    /\ Len(cache) > 0
    /\ lastUpdated.kind # "null"
    /\ lastUpdated.kind = "date"
    /\ now - lastUpdated.ms > CACHE_DURATION

\* isDataValid()
isDataValid ==
    /\ Len(cache) > 0
    /\ lastUpdated.kind # "null"
    /\ lastUpdated.kind = "date"
    /\ now - lastUpdated.ms < CACHE_DURATION

\* getLastUpdated()
getLastUpdated == lastUpdated

\* the error the catch block of fetchMarketData() throws after a failed
\* request; the message of the caught error that follows the prefix is not
\* modelled
FetchError == "Failed to fetch market data"

\* the error of fetchMarketData() when API_URL is missing: the error of line
\* 70 as the catch block rethrows it
FetchConfigError == "Failed to fetch market data: API URL is not configured"

\* fetchMarketData() without the API_URL check
StartKind_NoUrlCheck ==
    IF isDataValid THEN "hit"
    ELSE IF isFetching THEN "wait"
    ELSE "request"

\* fetchMarketData() without the isFetching check
StartKind_NoGuard ==
    IF isDataValid THEN "hit"
    ELSE IF ~apiUrl THEN (IF Len(cache) > 0 THEN "stale" ELSE "reject")
    ELSE "request"

\* fetchMarketData() up to its first suspension point:
\*   "hit"     the cache is valid and is returned
\*   "wait"    a fetch is in flight: waitForCache()
\*   "stale"   API_URL is missing, the catch block returns the cache
\*   "reject"  API_URL is missing, the catch block rethrows
\*   "request" the guard is set and GET /api/market-data is issued
StartKind ==
    IF isDataValid THEN "hit"
    ELSE IF isFetching THEN "wait"
    ELSE IF ~apiUrl THEN (IF Len(cache) > 0 THEN "stale" ELSE "reject")
    ELSE "request"

\* what the call has returned when it reaches that point
StartOutcome ==
    CASE StartKind \in {"hit", "stale"} -> Resolved(cache)
      [] StartKind = "reject" -> Rejected(FetchConfigError)
      [] OTHER -> Pending

\* the result of a successful fetch: lines 93-100
FetchStored(r) ==
    LET data == r.data.items IN
    [ cache |-> data,
      lastUpdated |-> IF Len(data) > 0
                      THEN NewDate(data[Len(data)].timestamp.v)
                      ELSE lastUpdated,
      isFetching |-> FALSE,
      stored |-> TRUE,
      out |-> Resolved(data) ]

\* fetchMarketData() whose catch block always rethrows
FetchSettle_AlwaysThrow(r) ==
    IF r.kind = "json" /\ validateStockData(r.data)
    THEN FetchStored(r)
    ELSE [ cache |-> cache, lastUpdated |-> lastUpdated, isFetching |-> FALSE,
           stored |-> FALSE, out |-> Rejected(FetchError) ]

\* fetchMarketData() whose catch block always returns the cache
FetchSettle_AlwaysCache(r) ==
    IF r.kind = "json" /\ validateStockData(r.data)
    THEN FetchStored(r)
    ELSE [ cache |-> cache, lastUpdated |-> lastUpdated, isFetching |-> FALSE,
           stored |-> FALSE, out |-> Resolved(cache) ]

\* fetchMarketData() that clears the guard at the end of the try block
\* instead of in a finally block
FetchSettle_NoFinally(r) ==
    IF r.kind = "json" /\ validateStockData(r.data)
    THEN FetchStored(r)
    ELSE [ cache |-> cache, lastUpdated |-> lastUpdated, isFetching |-> TRUE,
           stored |-> FALSE,
           out |-> IF Len(cache) > 0 THEN Resolved(cache) ELSE Rejected(FetchError) ]

\* fetchMarketData() that stores every JSON array without validating it
FetchSettle_NoValidate(r) ==
    IF r.kind = "json" /\ r.data.isArray
    THEN FetchStored(r)
    ELSE [ cache |-> cache, lastUpdated |-> lastUpdated, isFetching |-> FALSE,
           stored |-> FALSE,
           out |-> IF Len(cache) > 0 THEN Resolved(cache) ELSE Rejected(FetchError) ]

\* fetchMarketData() after the response r has arrived: the rest of the try
\* block, the catch block and the finally block
FetchSettle(r) ==
    IF r.kind = "json" /\ validateStockData(r.data)
    THEN FetchStored(r)
    ELSE [ cache |-> cache,
           lastUpdated |-> lastUpdated,
           isFetching |-> FALSE,
           stored |-> FALSE,
           out |-> IF Len(cache) > 0
                   THEN Resolved(cache)
                   ELSE Rejected(FetchError) ]

\* waitForCache() that looks at the cache only, not at the in-flight guard
WaitOver_CacheOnly == Len(cache) > 0

\* one tick of the setInterval of waitForCache(): does the waiter resolve
WaitOver == ~isFetching /\ Len(cache) > 0

----------------------------------------------------------------------------
(* MarketDashboard: the useState values *)

FetchDataBegin(u) == [u EXCEPT !.loading = TRUE, !.error = ""]

\* hasData is marketData.length > 0
FetchDataEnd(u, out) ==
    [u EXCEPT !.loading = FALSE,
              !.hasData = IF out.kind = "resolved" THEN Len(out.data) > 0 ELSE @,
              !.error = IF out.kind = "rejected"
                        THEN "Failed to load market data"
                        ELSE @]

\* the dashboard renders its header, TickerManagement and the refresh modal
\* unless `loading && marketData.length === 0`, when it renders the spinner;
\* an unmounted dashboard renders nothing
MainView == ui.mounted /\ ~ui.unmounted /\ ~(ui.loading /\ ~ui.hasData)

\* pollRefreshStatus() after `await fetchData()`
PollFinish(u) == [u EXCEPT !.refreshing = FALSE, !.refreshStatus = ""]

\* the continuation that runs when a fetchMarketData() call of origin o settles
AfterFetch(o, u, out) ==
    CASE o = "fetchData" -> FetchDataEnd(u, out)
      [] o = "poll"      -> PollFinish(FetchDataEnd(u, out))
      [] OTHER           -> u

\* The outstanding GET /api/market-data requests: queue lists the calls that
\* own one, oldest first; stale holds those of them issued before the request
\* whose response is the cache content now; preClear those issued before
\* refreshData() last cleared the cache.
NoReqs == [queue |-> <<>>, stale |-> {}, preClear |-> {}]

\* d was issued before c
IssuedBefore(d, c) ==
    \E i, j \in 1 .. Len(reqs.queue) :
        i < j /\ reqs.queue[i] = d /\ reqs.queue[j] = c

\* call c issues its request: `await fetch(`${this.API_URL}/api/market-data`)`
ReqIssue(c) == [reqs EXCEPT !.queue = Append(@, c)]

\* the request of call c settles; stored: its response became the cache
ReqSettle(c, stored) ==
    [ queue    |-> SelectSeq(reqs.queue, LAMBDA d : d # c),
      stale    |-> IF stored
                   THEN {d \in Calls : IssuedBefore(d, c)}
                   ELSE reqs.stale \ {c},
      preClear |-> reqs.preClear \ {c} ]

\* refreshData() clears the cache
ReqClear ==
    [reqs EXCEPT !.stale = {},
                 !.preClear = {reqs.queue[i] : i \in 1 .. Len(reqs.queue)}]

\* the service's side of a fetchMarketData() call made by o; the call takes
\* slot c when it stays pending
CallFetch(c, o) ==
    LET k == StartKind IN
    /\ k \in {"request", "wait"} => pc[c] = "free"
    /\ pc' = [pc EXCEPT ![c] = CASE k = "request" -> "fetching"
                                 [] k = "wait"    -> "waiting"
                                 [] OTHER         -> @]
    /\ origin' = [origin EXCEPT ![c] = IF k \in {"request", "wait"} THEN o ELSE @]
    /\ isFetching' = IF k = "request" THEN TRUE ELSE isFetching
    /\ reqs' = IF k = "request" THEN ReqIssue(c) ELSE reqs
    /\ UNCHANGED <<tk, apiUrl, cache, lastUpdated, fetchedAt>>

\* fetchData() called with component state u
FetchData(c, o, u) ==
    /\ CallFetch(c, o)
    /\ ui' = IF StartOutcome.kind = "pending"
             THEN FetchDataBegin(u)
             ELSE AfterFetch(o, FetchDataBegin(u), StartOutcome)

NoResp == [kind |-> "none", data |-> NotArray]
Idle == Event("idle", NoResp, NoOutcome)
RefreshEvent(op, r) ==
    [op |-> op, resp |-> [kind |-> r.kind, data |-> NotArray], out |-> NoOutcome,
     status |-> r.status, late |-> FALSE]

----------------------------------------------------------------------------
(* Refresh requests *)

TriggerResponses ==
    { [kind |-> "ok", status |-> s, message |-> m] :
          <<s, m>> \in {<<"started", "">>, <<"error", "busy">>} }
    \cup { [kind |-> "http", status |-> "", message |-> m] : m \in {"", "busy"} }
    \cup { [kind |-> "transport", status |-> "", message |-> ""] }

StatusResponses ==
    { [kind |-> "ok", status |-> s] : s \in {"running", "complete", "idle"} }
    \cup { [kind |-> k, status |-> ""] : k \in {"http", "transport"} }

\* refreshData() that does not clear the cache when the trigger succeeds
RefreshSettle_NoClear(r) ==
    IF r.kind = "ok"
    THEN [ cache |-> cache, lastUpdated |-> lastUpdated, cleared |-> TRUE, error |-> "" ]
    ELSE [ cache |-> cache, lastUpdated |-> lastUpdated, cleared |-> FALSE,
           error |-> CASE r.kind = "transport" -> "Failed to fetch"
                       [] r.message # ""       -> r.message
                       [] OTHER                -> "Failed to refresh data: status" ]

\* refreshData() that clears the cache before it looks at the response
RefreshSettle_ClearFirst(r) ==
    IF r.kind = "ok"
    THEN [ cache |-> <<>>, lastUpdated |-> NullDate, cleared |-> TRUE, error |-> "" ]
    ELSE [ cache |-> <<>>, lastUpdated |-> NullDate, cleared |-> FALSE,
           error |-> CASE r.kind = "transport" -> "Failed to fetch"
                       [] r.message # ""       -> r.message
                       [] OTHER                -> "Failed to refresh data: status" ]

\* refreshData() that empties the cache and keeps lastUpdated
RefreshSettle_KeepsTimestamp(r) ==
    IF r.kind = "ok"
    THEN [ cache |-> <<>>, lastUpdated |-> lastUpdated, cleared |-> TRUE, error |-> "" ]
    ELSE [ cache |-> cache, lastUpdated |-> lastUpdated, cleared |-> FALSE,
           error |-> CASE r.kind = "transport" -> "Failed to fetch"
                       [] r.message # ""       -> r.message
                       [] OTHER                -> "Failed to refresh data: status" ]

\* refreshData() after the response r of POST /api/market-data/refresh
RefreshSettle(r) ==
    IF r.kind = "ok"
    THEN [ cache |-> <<>>, lastUpdated |-> NullDate, cleared |-> TRUE, error |-> "" ]
    ELSE [ cache |-> cache, lastUpdated |-> lastUpdated, cleared |-> FALSE,
           error |-> CASE r.kind = "transport" -> "Failed to fetch"
                       [] r.message # ""       -> r.message
                       [] OTHER                -> "Failed to refresh data: status" ]

\* checkRefreshStatus() after the response r of GET .../refresh/status:
\* the status it resolves with, or "" when it throws
StatusOf(r) == IF r.kind = "ok" THEN r.status ELSE ""

\* checkInitialRefreshStatus() that resumes polling on every status the
\* endpoint answers
InitResumes_AnyStatus(r) == r.kind = "ok"

\* checkInitialRefreshStatus(): `if (status.status === 'running')`
InitResumes(r) == StatusOf(r) = "running"

Active == net.trig + net.polls + net.timers

\* pollRefreshStatus() up to `await checkRefreshStatus()`
PollBegin(u, n) ==
    IF apiUrl
    THEN [ui |-> u, net |-> [n EXCEPT !.polls = @ + 1]]
    ELSE [ui |-> [u EXCEPT !.refreshing = FALSE, !.refreshStatus = ""], net |-> n]

\* pollRefreshStatus() that polls again at once on `running`
ScheduleNextPoll_NoDelay(n) == [n EXCEPT !.polls = @ + 1]

\* pollRefreshStatus() on `running`: setTimeout(pollRefreshStatus,
\* POLLING_INTERVAL)
ScheduleNextPoll(n) == [n EXCEPT !.timers = @ + 1]

\* A refresh run as handleRefresh() and pollRefreshStatus() drive it, followed
\* while no other caller of the service interleaves: the trigger has answered
\* `started` ("started"), the first poll has answered `running` ("running"),
\* the second poll has answered `complete` ("complete").  inval counts the
\* executions of lines 136-138 of refreshData(), gets the GET
\* /api/market-data requests issued, both since the trigger was sent.
RunOff == [phase |-> "off", inval |-> 0, gets |-> 0]

\* the response r of the trigger arrives; s is what refreshData() did
RunTrigger(r, s) ==
    IF /\ r.kind = "ok" /\ r.status = "started"
       /\ \A c \in Calls : pc[c] = "free"
       /\ net.trig = 1 /\ net.polls = 0 /\ net.timers = 0 /\ ~net.init
    THEN [phase |-> "started", inval |-> IF s.cleared THEN 1 ELSE 0, gets |-> 0]
    ELSE RunOff

\* the response r of a status poll arrives
RunPoll(r) ==
    CASE r.kind = "ok" /\ r.status = "running" /\ run.phase = "started" ->
             [run EXCEPT !.phase = "running"]
      [] r.kind = "ok" /\ r.status = "complete" /\ run.phase = "running" ->
             [run EXCEPT !.phase = "complete",
                         !.gets = @ + (IF StartKind = "request" THEN 1 ELSE 0)]
      [] OTHER -> RunOff

----------------------------------------------------------------------------
(* StaticTickerService: each method is one request and what it makes of    *)
(* the response.                                                           *)

JsTrue == V("boolean", "true")
JsFalse == V("boolean", "false")
List(items) == V("array", items)

\* the truthiness `||` tests
Truthy(v) ==
    CASE v.t \in {"absent", "null"} -> FALSE
      [] v.t = "boolean"            -> v.v = "true"
      [] v.t = "number"             -> v.v # "0"
      [] v.t = "string"             -> v.v # ""
      [] OTHER                      -> TRUE

\* an element of `tickers` or `results`: an object, or null
TickerObj(sym, name, sector, industry, names) ==
    [kind |-> "object", symbol |-> sym, name |-> name, sector |-> sector,
     industry |-> industry, names |-> names]
NullTicker ==
    [kind |-> "null", symbol |-> Absent, name |-> Absent, sector |-> Absent,
     industry |-> Absent, names |-> Absent]
TickerFull ==
    TickerObj(Str("ABC"), Str("Abc Inc"), Str("Health"), Str("Biotech"),
              V("object", "names"))
TickerBare == TickerObj(Str("XYZ"), Absent, Absent, Absent, Absent)

\* the values of `success` and of `results` / `tickers` in a body
SuccessValues ==
    {Absent, JsNull, JsTrue, JsFalse, Num("1"), Num("0"), Str("yes"), Str("")}
ListValues ==
    {Absent, JsNull, List(<<>>), List(<<TickerFull>>), List(<<TickerBare>>),
     List(<<TickerFull, NullTicker>>), Str("none")}

\* a parsed body: an object with (some of) success, results, tickers; or null
Body(success, results, tickers) ==
    [t |-> "object", success |-> success, results |-> results, tickers |-> tickers]
NullBody == [t |-> "null", success |-> Absent, results |-> Absent, tickers |-> Absent]

\* responses of the ticker endpoints: the request fails in transport, the
\* status is not ok, the body is not JSON, or the body parses
TickerResponses ==
    { [kind |-> k, body |-> NullBody] : k \in {"transport", "http", "badjson"} }
    \cup { [kind |-> "json", body |-> NullBody] }
    \cup { [kind |-> "json", body |-> Body(sv, lv, Absent)] :
               sv \in SuccessValues, lv \in ListValues }
    \cup { [kind |-> "json", body |-> Body(Absent, Absent, lv)] : lv \in ListValues }

\* what a ticker service promise settles with
TkResolved(v) == [kind |-> "resolved", value |-> v]
TkRejected(msg) == [kind |-> "rejected", value |-> V("error", msg)]

\* response.json() throws, or reading a property of null throws
Throws(r) == r.kind # "json" \/ r.body.t # "object"

\* a || b
Or(a, b) == IF Truthy(a) THEN a ELSE b

\* searchTickers(query) after the response r of GET /search
searchTickers(r) ==
    IF Throws(r)
    THEN TkResolved(List(<<>>))
    ELSE TkResolved(Or(r.body.results, List(<<>>)))

\* the object getManagedTickers() makes of one element of `tickers`
MapTicker(ticker) ==
    TickerObj(ticker.symbol,
              Or(ticker.name, ticker.symbol),
              Or(ticker.sector, Str("")),
              Or(ticker.industry, Str("")),
              Or(ticker.names, V("object", "{}")))

\* getManagedTickers() after the response r of GET /tickers
getManagedTickers(r) ==
    CASE r.kind = "transport" -> TkRejected("Failed to fetch")
      [] r.kind = "http"      -> TkRejected("HTTP error! status")
      [] r.kind = "badjson"   -> TkRejected("SyntaxError")
      [] r.body.t # "object"  -> TkRejected("TypeError")
      [] OTHER ->
           LET tickers == Or(r.body.tickers, List(<<>>)) IN
           IF tickers.t # "array"
           THEN TkRejected("TypeError")
           ELSE IF \E i \in 1 .. Len(tickers.v) : tickers.v[i].kind # "object"
           THEN TkRejected("TypeError")
           ELSE TkResolved(List([i \in 1 .. Len(tickers.v) |-> MapTicker(tickers.v[i])]))

\* addTicker() whose catch block throws the error on
addTicker_Rethrow(r) ==
    IF Throws(r)
    THEN TkRejected("Failed to add ticker")
    ELSE TkResolved(Or(r.body.success, JsFalse))

\* addTicker(symbol) after the response r of POST /tickers
addTicker(r) ==
    IF Throws(r)
    THEN TkResolved(JsFalse)
    ELSE TkResolved(Or(r.body.success, JsFalse))

\* removeTicker(symbol) after the response r of DELETE /tickers/:symbol
removeTicker(r) ==
    IF Throws(r)
    THEN TkResolved(JsFalse)
    ELSE TkResolved(Or(r.body.success, JsFalse))

TickerOps == {"searchTickers", "getManagedTickers", "addTicker", "removeTicker"}

TickerSettle(op, r) ==
    CASE op = "searchTickers"     -> searchTickers(r)
      [] op = "getManagedTickers" -> getManagedTickers(r)
      [] op = "addTicker"         -> addTicker(r)
      [] op = "removeTicker"      -> removeTicker(r)

TkNone == [kind |-> "none", value |-> Absent]
TkIdle ==
    [op |-> "", phase |-> "idle", resp |-> [kind |-> "none", body |-> NullBody],
     out |-> TkNone]

----------------------------------------------------------------------------
(* Initial state: the module is loaded, the singleton is constructed, the  *)
(* dashboard is not mounted yet.                                           *)

Init ==
    /\ apiUrl \in BOOLEAN
    /\ cache = <<>>
    /\ lastUpdated = NullDate
    /\ isFetching = FALSE
    /\ now = 0
    /\ pc = [c \in Calls |-> "free"]
    /\ origin = [c \in Calls |-> "none"]
    /\ fetchedAt = -1
    /\ ui = [ mounted |-> FALSE, unmounted |-> FALSE, loading |-> TRUE,
              hasData |-> FALSE, error |-> "", refreshing |-> FALSE,
              refreshStatus |-> "", modalOpen |-> FALSE ]
    /\ net = [ trig |-> 0, init |-> FALSE, polls |-> 0, timers |-> 0 ]
    /\ last = Event("init", NoResp, NoOutcome)
    /\ run = RunOff
    /\ reqs = NoReqs
    /\ tk = TkIdle

----------------------------------------------------------------------------
(* Actions *)

\* time passes
Tick ==
    /\ now < MaxTime * TickMs
    /\ now' = now + TickMs
    /\ last' = Idle
    /\ UNCHANGED <<tk, apiUrl, cache, lastUpdated, isFetching, pc, origin,
                   fetchedAt, reqs, ui, net, run>>

\* the dashboard mounts: both mount effects run, fetchData() with the
\* passive interval, and checkInitialRefreshStatus()
Mount(c) ==
    /\ ~ui.mounted
    /\ FetchData(c, "fetchData", [ui EXCEPT !.mounted = TRUE])
    /\ net' = [net EXCEPT !.init = apiUrl]
    /\ last' = Event("mount", NoResp, StartOutcome)
    /\ run' = RunOff
    /\ UNCHANGED now

\* setInterval(fetchData, 5 * 60 * 1000) fires, or TickerManagement calls
\* onTickersUpdate
PassiveRefresh(c) ==
    /\ ui.mounted
    /\ ~ui.unmounted
    /\ FetchData(c, "fetchData", ui)
    /\ last' = Event("fetchData", NoResp, StartOutcome)
    /\ run' = RunOff
    /\ UNCHANGED <<now, net>>

\* TickerManagement (loadManagedTickers, handleStockSelect) calls
\* fetchMarketData()
ConsumerFetch(c) ==
    /\ MainView
    /\ CallFetch(c, "consumer")
    /\ last' = Event("consumerFetch", NoResp, StartOutcome)
    /\ run' = RunOff
    /\ UNCHANGED <<now, ui, net>>

\* the response of GET /api/market-data arrives at the call that issued it
GetResponse(c, r) ==
    /\ pc[c] = "fetching"
    /\ LET s == FetchSettle(r) IN
       /\ cache' = s.cache
       /\ lastUpdated' = s.lastUpdated
       /\ isFetching' = s.isFetching
       /\ fetchedAt' = IF s.stored /\ Len(s.cache) > 0 THEN now
                       ELSE IF s.stored THEN -1 ELSE fetchedAt
       /\ ui' = AfterFetch(origin[c], ui, s.out)
       /\ last' = [Event("getResponse", r, s.out) EXCEPT
                       !.late = s.stored /\ c \in reqs.preClear]
       /\ reqs' = ReqSettle(c, s.stored)
    /\ pc' = [pc EXCEPT ![c] = "free"]
    /\ origin' = [origin EXCEPT ![c] = "none"]
    /\ run' = RunOff
    /\ UNCHANGED <<tk, apiUrl, now, net>>

\* the 100 ms interval of waitForCache() fires for the waiting call c
WaitTick(c) ==
    /\ pc[c] = "waiting"
    /\ IF WaitOver
       THEN /\ pc' = [pc EXCEPT ![c] = "free"]
            /\ origin' = [origin EXCEPT ![c] = "none"]
            /\ ui' = AfterFetch(origin[c], ui, Resolved(cache))
            /\ last' = Event("waitTick", NoResp, Resolved(cache))
            /\ run' = RunOff
            /\ UNCHANGED <<tk, apiUrl, cache, lastUpdated, isFetching, now, fetchedAt, reqs, net>>
       ELSE UNCHANGED vars

\* the refresh button: disabled={refreshing}, onClick opens the modal
OpenRefreshModal ==
    /\ MainView
    /\ ~ui.refreshing
    /\ ~ui.modalOpen
    /\ ui' = [ui EXCEPT !.modalOpen = TRUE]
    /\ last' = Idle
    /\ UNCHANGED <<tk, apiUrl, cache, lastUpdated, isFetching, now, pc, origin,
                   fetchedAt, reqs, net, run>>

\* confirmRefresh() with the right password, then handleRefresh() up to
\* `await refreshData()`
ConfirmRefresh ==
    /\ MainView
    /\ ui.modalOpen
    /\ Active < MaxLoops
    /\ LET u == [ui EXCEPT !.modalOpen = FALSE, !.refreshing = TRUE, !.error = ""] IN
       IF apiUrl
       THEN /\ ui' = u
            /\ net' = [net EXCEPT !.trig = @ + 1]
       ELSE /\ ui' = [u EXCEPT !.error = "Failed to refresh data",
                               !.refreshing = FALSE]
            /\ net' = net
    /\ last' = Idle
    /\ run' = RunOff
    /\ UNCHANGED <<tk, apiUrl, cache, lastUpdated, isFetching, now, pc, origin,
                   fetchedAt, reqs>>

\* the response of POST /api/market-data/refresh arrives: the rest of
\* refreshData() and of handleRefresh()
TriggerResponse(r) ==
    /\ net.trig > 0
    /\ LET s == RefreshSettle(r)
           n == [net EXCEPT !.trig = @ - 1] IN
       /\ cache' = s.cache
       /\ lastUpdated' = s.lastUpdated
       /\ fetchedAt' = IF s.cleared THEN -1 ELSE fetchedAt
       /\ reqs' = IF s.cleared THEN ReqClear ELSE reqs
       /\ IF s.cleared
          THEN /\ ui' = PollBegin(ui, n).ui
               /\ net' = PollBegin(ui, n).net
          ELSE /\ ui' = [ui EXCEPT !.error = "Failed to refresh data",
                                   !.refreshing = FALSE]
               /\ net' = n
       /\ run' = RunTrigger(r, s)
    /\ last' = RefreshEvent("triggerResponse", r)
    /\ UNCHANGED <<tk, apiUrl, isFetching, now, pc, origin>>

\* the response of the on-mount status request arrives
InitStatusResponse(r) ==
    /\ net.init
    /\ LET n == [net EXCEPT !.init = FALSE] IN
       IF InitResumes(r)
       THEN LET u == [ui EXCEPT !.refreshing = TRUE, !.refreshStatus = StatusOf(r)] IN
            /\ ui' = PollBegin(u, n).ui
            /\ net' = PollBegin(u, n).net
       ELSE /\ ui' = ui
            /\ net' = n
    /\ last' = RefreshEvent("initStatus", r)
    /\ run' = IF InitResumes(r) THEN RunOff ELSE run
    /\ UNCHANGED <<tk, apiUrl, cache, lastUpdated, isFetching, now, pc, origin,
                   fetchedAt, reqs>>

\* the response of a status request of pollRefreshStatus() arrives
PollResponse(c, r) ==
    /\ net.polls > 0
    /\ LET n == [net EXCEPT !.polls = @ - 1]
           u == [ui EXCEPT !.refreshStatus = StatusOf(r)] IN
       CASE r.kind # "ok" ->
              /\ ui' = [ui EXCEPT !.refreshing = FALSE, !.refreshStatus = ""]
              /\ net' = n
              /\ last' = RefreshEvent("pollError", r)
              /\ UNCHANGED <<tk, apiUrl, cache, lastUpdated, isFetching, pc, origin,
                             fetchedAt, reqs>>
         [] r.kind = "ok" /\ r.status = "running" ->
              /\ ui' = u
              /\ net' = ScheduleNextPoll(n)
              /\ last' = RefreshEvent("pollRunning", r)
              /\ UNCHANGED <<tk, apiUrl, cache, lastUpdated, isFetching, pc, origin,
                             fetchedAt, reqs>>
         [] r.kind = "ok" /\ r.status = "complete" ->
              /\ FetchData(c, "poll", u)
              /\ net' = n
              /\ last' = Event("pollComplete", NoResp, StartOutcome)
         [] OTHER ->
              /\ ui' = u
              /\ net' = n
              /\ last' = RefreshEvent("pollOther", r)
              /\ UNCHANGED <<tk, apiUrl, cache, lastUpdated, isFetching, pc, origin,
                             fetchedAt, reqs>>
    /\ run' = RunPoll(r)
    /\ UNCHANGED now

\* setTimeout(pollRefreshStatus, POLLING_INTERVAL) fires
PollTimer ==
    /\ net.timers > 0
    /\ LET n == [net EXCEPT !.timers = @ - 1] IN
       /\ ui' = PollBegin(ui, n).ui
       /\ net' = PollBegin(ui, n).net
    /\ last' = Idle
    /\ UNCHANGED <<tk, apiUrl, cache, lastUpdated, isFetching, now, pc, origin,
                   fetchedAt, reqs, run>>

\* the dashboard unmounts: the cleanup of the mount effect runs
\* clearInterval(interval) and nothing else
Unmount ==
    /\ ui.mounted
    /\ ~ui.unmounted
    /\ ui' = [ui EXCEPT !.unmounted = TRUE]
    /\ last' = Idle
    /\ UNCHANGED <<tk, apiUrl, cache, lastUpdated, isFetching, now, pc, origin,
                   fetchedAt, reqs, net, run>>

\* The caller that has just been handed a snapshot changes it in place (here
\* `data.pop()`).  Every resolving path of fetchMarketData() returns
\* `this.cache` itself, so the array the caller holds is the cache.
ConsumerMutate ==
    /\ last.op \in {"mount", "fetchData", "consumerFetch", "pollComplete",
                    "getResponse", "waitTick"}
    /\ last.out.kind = "resolved"
    /\ last.out.data = cache
    /\ Len(cache) > 0
    /\ cache' = SubSeq(cache, 1, Len(cache) - 1)
    /\ last' = Event("consumerMutate", NoResp, NoOutcome)
    /\ UNCHANGED <<tk, apiUrl, lastUpdated, isFetching, now, pc, origin, fetchedAt, reqs,
                   ui, net, run>>

\* TickerManagement calls a method of the ticker service: the request is sent
TickerCall(op) ==
    /\ tk.phase = "idle"
    /\ tk' = [TkIdle EXCEPT !.op = op, !.phase = "pending"]
    /\ UNCHANGED market

\* the response of the request arrives and the promise settles
TickerResponse(r) ==
    /\ tk.phase = "pending"
    /\ tk' = [tk EXCEPT !.phase = "settled", !.resp = r,
                        !.out = TickerSettle(tk.op, r)]
    /\ UNCHANGED market

\* the caller has taken the result
TickerReturn ==
    /\ tk.phase = "settled"
    /\ tk' = TkIdle
    /\ UNCHANGED market

TickerNext ==
    \/ \E op \in TickerOps : TickerCall(op)
    \/ \E r \in TickerResponses : TickerResponse(r)
    \/ TickerReturn

\* the slot a new pending call takes: the lowest free one
Slots ==
    LET free == {c \in Calls : pc[c] = "free"} IN
    IF free = {} THEN {1} ELSE {c \in free : \A d \in free : c <= d}

Next ==
    \/ Tick
    \/ \E c \in Slots : Mount(c)
    \/ \E c \in Slots : PassiveRefresh(c)
    \/ \E c \in Slots : ConsumerFetch(c)
    \/ \E c \in Calls, r \in GetResponses : GetResponse(c, r)
    \/ \E c \in Calls : WaitTick(c)
    \/ OpenRefreshModal
    \/ ConfirmRefresh
    \/ \E r \in TriggerResponses : TriggerResponse(r)
    \/ \E r \in StatusResponses : InitStatusResponse(r)
    \/ \E c \in Slots, r \in StatusResponses : PollResponse(c, r)
    \/ PollTimer

Spec == Init /\ [][Next]_vars

\* every request is answered, every interval timer of waitForCache() keeps
\* firing, and so does the passive refresh interval of the mounted dashboard
FairSpec ==
    /\ Spec
    /\ \A c \in Calls : WF_vars(\E r \in GetResponses : GetResponse(c, r))
    /\ \A c \in Calls : SF_vars(WaitTick(c))
    /\ WF_vars(\E c \in Slots : PassiveRefresh(c))

\* every status request is answered and every setTimeout() of
\* pollRefreshStatus() fires
PollFairSpec ==
    /\ Spec
    /\ WF_vars(\E c \in Slots, r \in StatusResponses : PollResponse(c, r))
    /\ WF_vars(PollTimer)

\* the ticker service alone
TickerSpec == Init /\ [][TickerNext]_vars

\* the program with a dashboard that unmounts
UnmountSpec == Init /\ [][Next \/ Unmount]_vars

\* the program with callers that change the snapshots they receive
MutationSpec == Init /\ [][Next \/ ConsumerMutate]_vars

----------------------------------------------------------------------------
(* Properties *)

\* the calls that own an outstanding GET /api/market-data request
Outstanding == {c \in Calls : pc[c] = "fetching"}

\* the handlers that call fetchMarketData()
CallOps == {"mount", "fetchData", "consumerFetch", "pollComplete"}

\* the snapshot request failed: transport failure, non-2xx status, or a
\* payload that validateStockData() refuses
Failed(r) == r.kind # "json" \/ ~validateStockData(r.data)

\* C1: at most one snapshot request is outstanding in every reachable state;
\* while one is outstanding no step issues another; and a call made with no
\* valid cache, no request outstanding and the API URL configured issues
\* exactly one.
C1_SingleInFlight ==
    /\ [](Cardinality(Outstanding) <= 1)
    /\ [][ /\ Outstanding # {} => Outstanding' \subseteq Outstanding
           /\ ( /\ last'.op \in CallOps
                /\ Outstanding = {}
                /\ apiUrl
                /\ ~( /\ Len(cache) > 0
                      /\ lastUpdated.kind = "date"
                      /\ now - lastUpdated.ms < CACHE_DURATION ) )
              => Cardinality(Outstanding') = 1 ]_vars

\* a second call has arrived while the first call's request is outstanding
C1_Witness ==
    \E c, d \in Calls : pc[c] = "fetching" /\ pc[d] = "waiting"

\* C2: a caller that waits on an in-flight request settles once that request
\* has settled.
C2_WaitersSettle ==
    \A c \in Calls : (pc[c] = "waiting" /\ ~isFetching) ~> (pc[c] # "waiting")

\* C3: the fetchMarketData() call made when a status poll reports `complete`
\* is never answered from the cache, which was filled before the completion
\* was observed.
C3_NoPreRefreshData ==
    [][ last'.op = "pollComplete" => last'.out.kind # "resolved" ]_vars

\* C4: when the snapshot request fails while the cache holds a snapshot, the
\* call resolves with that snapshot and the cache keeps it.
C4_StaleOverEmpty ==
    [][ ( /\ last'.op = "getResponse"
          /\ Failed(last'.resp)
          /\ Len(cache) > 0 )
        => ( /\ last'.out = Resolved(cache)
             /\ cache' = cache
             /\ lastUpdated' = lastUpdated ) ]_vars

\* a request has failed with a non-2xx status and the call has resolved with
\* the snapshot the cache still holds
C4_Witness ==
    /\ last.op = "getResponse"
    /\ last.resp.kind = "http"
    /\ last.out.kind = "resolved"
    /\ Len(cache) > 0
    /\ last.out.data = cache

\* C5: when the fetch fails while the cache is empty, the call rejects and
\* the cache stays empty; this covers a failed request and a missing API URL.
C5_EmptyCachePropagates ==
    [][ ( /\ Len(cache) = 0
          /\ \/ last'.op = "getResponse" /\ Failed(last'.resp)
             \/ last'.op \in CallOps /\ ~apiUrl /\ ~isFetching )
        => ( /\ last'.out.kind = "rejected"
             /\ cache' = <<>> ) ]_vars

\* a request has returned a payload that fails validation, with an empty
\* cache, and the call has rejected
C5_Witness ==
    /\ last.op = "getResponse"
    /\ last.resp.kind = "json"
    /\ Failed(last.resp)
    /\ last.out.kind = "rejected"
    /\ cache = <<>>

\* a record of the payload has an empty symbol or a price that is not a number
BadRecord(item) ==
    \/ item.symbol.t # "string"
    \/ item.symbol.v = ""
    \/ NumberIsNaN(item.price)

\* C6: a payload with a record whose symbol is empty or whose price is not
\* numeric leaves the cached snapshot and the timestamp as they were.
C6_BadPayloadRejected ==
    [][ ( /\ last'.op = "getResponse"
          /\ last'.resp.kind = "json"
          /\ \E i \in 1 .. Len(last'.resp.data.items) :
                 BadRecord(last'.resp.data.items[i]) )
        => ( cache' = cache /\ lastUpdated' = lastUpdated ) ]_vars

\* C7: a snapshot of well-formed records fetched at time T makes the cache
\* valid exactly while now - T < 5 minutes.
C7_FreshnessFromFetchTime ==
    ( /\ fetchedAt >= 0
      /\ Len(cache) > 0
      /\ \A i \in 1 .. Len(cache) : ~BadRecord(cache[i]) )
        => (isDataValid <=> now - fetchedAt < CACHE_DURATION)

\* C8: the in-flight guard is set exactly while a snapshot request is
\* outstanding.
C8_GuardMatchesRequest ==
    isFetching <=> Outstanding # {}

\* a request has failed in transport and the guard is clear
C8_Witness ==
    /\ last.op = "getResponse"
    /\ last.resp.kind = "transport"
    /\ ~isFetching
    /\ Outstanding = {}

\* C9: a fetchMarketData() call made while the cache is valid resolves with
\* the cached snapshot, issues no request, and changes neither the cache, the
\* timestamp, the guard nor any pending call.
C9_CacheHitFrame ==
    [][ ( /\ last'.op \in CallOps
          /\ Len(cache) > 0
          /\ lastUpdated.kind = "date"
          /\ now - lastUpdated.ms < CACHE_DURATION )
        => ( /\ last'.out = Resolved(cache)
             /\ cache' = cache
             /\ lastUpdated' = lastUpdated
             /\ isFetching' = isFetching
             /\ pc' = pc ) ]_vars

\* TickerManagement has called fetchMarketData() with a valid cache and got
\* the cached snapshot
C9_Witness ==
    /\ last.op = "consumerFetch"
    /\ last.out.kind = "resolved"
    /\ last.out.data = cache
    /\ Len(cache) > 0
    /\ lastUpdated.kind = "date"
    /\ now - lastUpdated.ms < CACHE_DURATION
    /\ ~isFetching

\* C10: a 2xx trigger response whose status is not `started` starts no status
\* poll, shows the error and re-enables the refresh control.
C10_NoPollUnlessStarted ==
    [][ ( /\ last'.op = "triggerResponse"
          /\ last'.resp.kind = "ok"
          /\ last'.status # "started" )
        => ( /\ net'.polls = net.polls
             /\ ~ui'.refreshing
             /\ ui'.error = "Failed to refresh data" ) ]_vars

\* C11: a status poll that returns a phase other than `running` or
\* `complete` stops the polling, shows an error and sets refreshing back to
\* false.
C11_UnknownPhaseIsError ==
    [][ last'.op = "pollOther"
        => ( /\ net'.polls = net.polls - 1
             /\ net'.timers = net.timers
             /\ ~ui'.refreshing
             /\ ui'.error # "" ) ]_vars

\* C12: a status poll whose request fails ends the polling session: no poll
\* is scheduled or retried, refreshing returns to false and the error is
\* shown.
C12_PollFailureSurfaced ==
    [][ last'.op = "pollError"
        => ( /\ net'.polls = net.polls - 1
             /\ net'.timers = net.timers
             /\ ~ui'.refreshing
             /\ ui'.error # "" ) ]_vars

\* C13: in a refresh run whose trigger answers `started`, whose first poll
\* answers `running` and whose second poll answers `complete`, with no
\* fetchMarketData() call pending when the trigger answers and none made by
\* anyone else before the `complete` poll, the cache is invalidated exactly
\* once, no snapshot request is issued before the `complete` poll, and the
\* `complete` poll issues exactly one.
C13_OneInvalidationOneRefetch ==
    /\ run.phase \in {"started", "running"}
         => ( /\ run.inval = 1
              /\ run.gets = 0
              /\ cache = <<>>
              /\ lastUpdated = NullDate
              /\ Outstanding = {} )
    /\ run.phase = "complete"
         => ( /\ run.inval = 1
              /\ run.gets = 1
              /\ Cardinality(Outstanding) = 1
              /\ \A c \in Outstanding : origin[c] = "poll" )

\* the second poll of such a run has answered `complete` and the re-fetch it
\* issued is outstanding
C13_Witness ==
    /\ run.phase = "complete"
    /\ last.op = "pollComplete"
    /\ last.out.kind = "pending"
    /\ \E c \in Calls : pc[c] = "fetching" /\ origin[c] = "poll"

\* C14: when the dashboard mounts with the API URL configured it sends one
\* status request, and nothing else ever sends the on-mount request; when the
\* answer is `running` the dashboard sets refreshing and issues the first
\* poll; on any other answer, or when the request fails, it changes nothing
\* and starts no poll.
C14_MountStatusCheck ==
    [][ /\ (last'.op = "mount" /\ apiUrl) => (~net.init /\ net'.init)
        /\ (net'.init /\ ~net.init) => last'.op = "mount"
        /\ ( /\ last'.op = "initStatus"
             /\ last'.resp.kind = "ok"
             /\ last'.status = "running" )
           => ( /\ ui'.refreshing
                /\ ui'.refreshStatus = "running"
                /\ net'.polls = net.polls + 1
                /\ ~net'.init )
        /\ ( /\ last'.op = "initStatus"
             /\ ~(last'.resp.kind = "ok" /\ last'.status = "running") )
           => ( /\ ui' = ui
                /\ net'.polls = net.polls
                /\ net'.timers = net.timers
                /\ ~net'.init ) ]_vars

\* the on-mount status request has answered `running`: the dashboard is
\* refreshing and the first poll is outstanding
C14_Witness ==
    /\ last.op = "initStatus"
    /\ last.status = "running"
    /\ ui.refreshing
    /\ net.polls = 1
    /\ net.trig = 0

\* the on-mount status request has answered `complete` and no poll was started
C14_WitnessNoLoop ==
    /\ last.op = "initStatus"
    /\ last.status = "complete"
    /\ ~ui.refreshing
    /\ net.polls = 0

\* C15: when the trigger request fails (non-2xx status or transport failure)
\* the attempt ends there: no trigger is sent again, no status poll is issued
\* or scheduled, the error is shown, refreshing returns to false, and the
\* cached snapshot and the timestamp stay as they were.
C15_TriggerFailureTerminal ==
    [][ ( /\ last'.op = "triggerResponse"
          /\ last'.resp.kind \in {"http", "transport"} )
        => ( /\ net'.trig = net.trig - 1
             /\ net'.polls = net.polls
             /\ net'.timers = net.timers
             /\ ui'.error = "Failed to refresh data"
             /\ ~ui'.refreshing
             /\ cache' = cache
             /\ lastUpdated' = lastUpdated ) ]_vars

\* the trigger has answered with a non-2xx status while a snapshot was
\* cached: the error is shown and the snapshot is still there
C15_Witness ==
    /\ last.op = "triggerResponse"
    /\ last.resp.kind = "http"
    /\ Len(cache) > 0
    /\ lastUpdated.kind = "date"
    /\ ui.error = "Failed to refresh data"
    /\ ~ui.refreshing
    /\ Active = 0

\* C16: without the API URL no request of any kind is ever outstanding, the
\* guard is clear and the cache is empty in every state; every
\* fetchMarketData() call rejects with the configuration error; a confirmed
\* refresh fails at once (refreshData() rejects) with the error shown; and
\* the mount sends no status request.
C16_MissingUrlFailsFast ==
    /\ [](~apiUrl => ( /\ Outstanding = {}
                       /\ net.trig = 0
                       /\ net.polls = 0
                       /\ ~net.init
                       /\ ~isFetching
                       /\ cache = <<>> ))
    /\ [][ ~apiUrl
           => ( /\ last'.op \in CallOps => last'.out = Rejected(FetchConfigError)
                /\ (ui.modalOpen /\ ~ui'.modalOpen)
                     => ( /\ ui'.error = "Failed to refresh data"
                          /\ ~ui'.refreshing ) ) ]_vars

\* without the API URL the dashboard has mounted: its fetchMarketData() call
\* has rejected and the load error is shown
C16_Witness ==
    /\ ~apiUrl
    /\ last.op = "mount"
    /\ last.out = Rejected(FetchConfigError)
    /\ ui.error = "Failed to load market data"
    /\ ~isFetching
    /\ ~net.init

\* without the API URL a refresh has been confirmed and has failed at once
C16_WitnessRefresh ==
    /\ ~apiUrl
    /\ ui.mounted
    /\ ui.error = "Failed to refresh data"
    /\ ~ui.refreshing
    /\ net.trig = 0

\* every record of the snapshot is an object with a string symbol, a price
\* that converts to a number and a string timestamp
Validated(snapshot) ==
    \A i \in 1 .. Len(snapshot) :
        /\ snapshot[i].kind = "object"
        /\ snapshot[i].symbol.t = "string"
        /\ snapshot[i].price.t \in {"number", "string", "null"}
        /\ ~NumberIsNaN(snapshot[i].price)
        /\ snapshot[i].timestamp.t = "string"

\* C17: in every state the cache is empty or holds a payload that passed the
\* validation, and so does every snapshot a fetchMarketData() call has
\* resolved with (fresh fetch, cache hit, stale fallback, waiter); a response
\* that failed the validation is never what a call resolves with.
C17_OnlyValidatedSnapshots ==
    /\ Validated(cache)
    /\ last.out.kind = "resolved" => Validated(last.out.data)
    /\ (last.op = "getResponse" /\ Failed(last.resp) /\ last.out.kind = "resolved")
         => (last.out.data = cache /\ last.out.data # last.resp.data.items)

\* a request has returned a payload with a record that is not an object
\* while a snapshot was cached, and the call has resolved with the cached one
C17_Witness ==
    /\ last.op = "getResponse"
    /\ last.resp.kind = "json"
    /\ last.resp.data = Arr(<<RecABC, NullItem>>)
    /\ last.out.kind = "resolved"
    /\ last.out.data = cache
    /\ Len(cache) > 0

\* C18: when a snapshot request answers with a non-empty payload of
\* well-formed records, the call resolves with exactly those records in
\* order, getLastUpdated() is the parsed timestamp of the payload's last
\* record, and the cache is valid right away, so that a call made next is a
\* cache hit.
C18_FetchMakesCacheValid ==
    [][ ( /\ last'.op = "getResponse"
          /\ last'.resp.kind = "json"
          /\ last'.resp.data.isArray
          /\ Len(last'.resp.data.items) > 0
          /\ Validated(last'.resp.data.items)
          /\ \A i \in 1 .. Len(last'.resp.data.items) :
                 ~BadRecord(last'.resp.data.items[i]) )
        => LET data == last'.resp.data.items IN
           /\ last'.out = Resolved(data)
           /\ cache' = data
           /\ lastUpdated' = NewDate(data[Len(data)].timestamp.v)
           /\ lastUpdated'.kind = "date"
           /\ now' - lastUpdated'.ms < CACHE_DURATION ]_vars

\* C19: the cached snapshot and the timestamp always belong together: the
\* timestamp is null exactly when the snapshot is empty, and otherwise it is
\* the timestamp of the fetch that stored the snapshot.
C19_SnapshotAndTimestampTogether ==
    /\ Len(cache) = 0 => getLastUpdated = NullDate
    /\ Len(cache) > 0 => getLastUpdated = NewDate(cache[Len(cache)].timestamp.v)

\* C20: at most one status-polling loop is active: at most one status poll is
\* outstanding or scheduled.
C20_OnePollingLoop ==
    net.polls + net.timers <= 1

\* C21: a snapshot handed to a caller of fetchMarketData() is a copy: what the
\* caller does to the value it received changes neither the cached snapshot
\* nor what a later cache hit returns, so the cache changes only when a
\* snapshot response is stored or a refresh trigger clears it.
C21_SnapshotsAreCopies ==
    [][cache' # cache => last'.op \in {"getResponse", "triggerResponse"}]_vars

\* C22: the status-polling loop terminates even when the server reports
\* `running` for ever: whenever a status request is outstanding or a next
\* poll is scheduled, a state follows in which none is, polling has stopped.
C22_PollingTerminates ==
    (net.polls + net.timers > 0) ~> (net.polls + net.timers = 0)

\* C23: a call that waits on an in-flight request leaves the wait only at a
\* tick of its timer at which the in-flight guard is false, no snapshot
\* request is outstanding and the cache is non-empty; it resolves with the
\* cache of that moment, which the step does not change.
C23_WaiterReadsSettledCache ==
    [][ \A c \in Calls :
          (pc[c] = "waiting" /\ pc'[c] # "waiting") =>
              /\ last'.op = "waitTick"
              /\ ~isFetching
              /\ Outstanding = {}
              /\ Len(cache) > 0
              /\ last'.out.kind = "resolved"
              /\ last'.out.data = cache
              /\ cache' = cache ]_vars

\* a waiting call has resolved with a snapshot at a tick of its timer
C23_Witness ==
    /\ last.op = "waitTick"
    /\ last.out.kind = "resolved"
    /\ Len(last.out.data) > 0

\* C24: when a status poll answers `running` the status is published and
\* exactly one next poll is scheduled behind a timer, with no request issued
\* by that step; a status request is issued only one at a time, by a timer
\* that fires or by the start of a loop (the trigger or the on-mount check
\* has answered); and the number of loops grows only by such a start.  So a
\* loop is always either waiting for its one request or for its one timer.
C24_RunningSchedulesOnePoll ==
    [][ /\ last'.op = "pollRunning" =>
              /\ ui'.refreshStatus = "running"
              /\ net'.timers = net.timers + 1
              /\ net'.polls = net.polls - 1
              /\ net'.trig = net.trig
        /\ net'.polls > net.polls =>
              /\ net'.polls = net.polls + 1
              /\ \/ net'.timers = net.timers - 1 /\ net'.trig = net.trig
                 \/ net'.timers = net.timers /\ net'.trig = net.trig - 1
                 \/ net'.timers = net.timers /\ net.init /\ ~net'.init
        /\ net'.polls + net'.timers > net.polls + net.timers =>
              \/ net'.trig = net.trig - 1
              \/ net.init /\ ~net'.init ]_vars

\* a poll has answered `running` and the next poll is behind its timer
C24_Witness ==
    /\ last.op = "pollRunning"
    /\ ui.refreshStatus = "running"
    /\ net.timers = 1
    /\ net.polls = 0

\* C25: when a status poll answers `complete`, the cache is invalidated
\* before fetchMarketData() is called, so the call finds no cache to answer
\* from and stays pending with refreshing still true; no poll is scheduled
\* or issued by that step; and when that call settles, completion is
\* signalled: refreshing is false and the refresh status is cleared.
C25_CompletionOrder ==
    [][ /\ last'.op = "pollComplete" =>
              /\ cache' = <<>>
              /\ last'.out.kind = "pending"
              /\ ui'.refreshing
              /\ net'.timers = net.timers
              /\ net'.polls = net.polls - 1
        /\ \A c \in Calls :
              (origin[c] = "poll" /\ pc[c] # "free" /\ pc'[c] = "free") =>
                  /\ ~ui'.refreshing
                  /\ ui'.refreshStatus = "" ]_vars

\* C26: once the dashboard has unmounted, no step changes the dashboard
\* state, and no status poll is issued or scheduled.
C26_QuietAfterUnmount ==
    [][ ui.unmounted =>
            /\ ui' = ui
            /\ net'.polls <= net.polls
            /\ net'.timers <= net.timers ]_vars

\* C27: cache writes happen in the order their requests were issued: the
\* response that a call stores never replaces content written by a request
\* issued after its own.  A response stored after refreshData() cleared the
\* cache, by a request issued before the clear, is the one effect out of
\* order.
C27_WritesInIssueOrder ==
    [][ \A c \in Calls :
          ( /\ pc[c] = "fetching"
            /\ pc'[c] = "free"
            /\ last'.op = "getResponse"
            /\ last'.resp.kind = "json"
            /\ cache' = last'.resp.data.items )
          => c \notin reqs.stale ]_vars

\* a request issued before a refresh cleared the cache has stored its
\* response after the clear
C27_Witness ==
    /\ last.op = "getResponse"
    /\ last.late
    /\ Len(cache) > 0
    /\ cache = last.resp.data.items

\* C28: refreshData() changes the service only when the trigger answers 2xx:
\* then the cache is empty and lastUpdated is null afterwards; on a non-2xx
\* answer or a transport failure both are unchanged; in neither case does it
\* touch the in-flight guard or the calls in progress.  A status request
\* that is answered (checkRefreshStatus) changes nothing of the service.
C28_RefreshFrame ==
    [][ /\ last'.op = "triggerResponse" =>
              /\ UNCHANGED <<tk, apiUrl, isFetching, pc, origin>>
              /\ IF last'.resp.kind = "ok"
                 THEN cache' = <<>> /\ lastUpdated' = NullDate
                 ELSE cache' = cache /\ lastUpdated' = lastUpdated
        /\ last'.op \in {"initStatus", "pollRunning", "pollError", "pollOther"} =>
              UNCHANGED <<tk, apiUrl, cache, lastUpdated, isFetching, pc, origin>> ]_vars

\* a trigger has been answered 2xx while a snapshot request was outstanding:
\* the cache is cleared and the in-flight guard is still set
C28_Witness ==
    /\ last.op = "triggerResponse"
    /\ last.resp.kind = "ok"
    /\ isFetching
    /\ cache = <<>>
    /\ lastUpdated = NullDate
    /\ reqs.preClear # {}

\* C29: searchTickers, addTicker and removeTicker never reject.  When the
\* request fails, the status is not 2xx or handling the body throws,
\* searchTickers resolves with the empty list and addTicker / removeTicker
\* resolve with false; addTicker / removeTicker resolve with true only on a
\* 2xx response whose body has a truthy `success`.  getManagedTickers rejects
\* on every such failure.
C29_TickerServiceOutcomes ==
    tk.phase = "settled" =>
        LET failed == tk.resp.kind # "json" \/ tk.resp.body.t = "null" IN
        /\ tk.op = "searchTickers" =>
              /\ tk.out.kind = "resolved"
              /\ failed => tk.out.value.t = "array" /\ Len(tk.out.value.v) = 0
        /\ tk.op \in {"addTicker", "removeTicker"} =>
              /\ tk.out.kind = "resolved"
              /\ failed => tk.out.value.t = "boolean" /\ tk.out.value.v = "false"
              /\ (tk.out.value.t = "boolean" /\ tk.out.value.v = "true") =>
                    /\ tk.resp.kind = "json"
                    /\ tk.resp.body.t = "object"
                    /\ tk.resp.body.success.t \notin {"absent", "null"}
                    /\ tk.resp.body.success.v \notin {"false", "0", ""}
        /\ (tk.op = "getManagedTickers" /\ failed) => tk.out.kind = "rejected"

\* addTicker has settled after a non-2xx answer
C29_Witness ==
    /\ tk.phase = "settled"
    /\ tk.op = "addTicker"
    /\ tk.resp.kind = "http"
    /\ tk.out.kind = "resolved"

\* the calls made by runs of fetchData() that have not settled
FetchDataRuns == {c \in Calls : pc[c] # "free" /\ origin[c] \in {"fetchData", "poll"}}

\* C30: loading is false only when no run of fetchData() is outstanding;
\* a run whose fetchMarketData() call settles ends with loading false; if the
\* call rejects the error message is set and the displayed market data is
\* kept; if it resolves the displayed market data is the resolved snapshot
\* and the error is still cleared.
C30_FetchDataOutcome ==
    /\ [](ui.mounted /\ ~ui.loading => FetchDataRuns = {})
    /\ [][ \A c \in Calls :
              (c \in FetchDataRuns /\ pc'[c] = "free") =>
                  /\ ~ui'.loading
                  /\ last'.out.kind = "rejected" =>
                        /\ ui'.error = "Failed to load market data"
                        /\ ui'.hasData = ui.hasData
                  /\ last'.out.kind = "resolved" =>
                        /\ ui'.hasData = (Len(last'.out.data) > 0)
                        /\ ui'.error = "" ]_vars

====
